---- MODULE Spec2Model ----
(***************************************************************************)
(* EMPIRIA Intelligence API (src/main.py): the scoring pipeline, the       *)
(* adaptive weight learner, the TTL-cached feeds and the endpoints that    *)
(* run the pipeline over the student feed.                                 *)
(*                                                                         *)
(* Number representation.  Every score the code rounds to 2 decimals is    *)
(* held as an integer number of hundredths (csi 43.2 is 4320), every day   *)
(* count rounded to 1 decimal as an integer number of tenths, a            *)
(* credibility weight as an integer number of tenths, and the unrounded    *)
(* placement probability as an integer number of two-hundredths.  Python   *)
(* text is a sequence of one-character strings, so that strip() and        *)
(* lower() are computed and not assumed.                                   *)
(***************************************************************************)
EXTENDS Integers, Sequences, FiniteSets, TLC

(***************************************************************************)
(* Python values as they arrive in a sheet row: t is the kind, n the       *)
(* number (an int's value, or a float's value in tenths), s the text.      *)
(* t = "missing" stands for a key that is absent from the row.             *)
(***************************************************************************)
PyInt(n) == [t |-> "int", n |-> n, s |-> <<>>]

PyFloat(tenths) == [t |-> "float", n |-> tenths, s |-> <<>>]

PyStr(chars) == [t |-> "str", n |-> 0, s |-> chars]

PyNone == [t |-> "none", n |-> 0, s |-> <<>>]

Missing == [t |-> "missing", n |-> 0, s |-> <<>>]

\* dict.get(key, default) on a row
Get(row, key, default) == IF row[key].t = "missing" THEN default ELSE row[key]

(***************************************************************************)
(* Text                                                                    *)
(***************************************************************************)
UPPER == <<"A","B","C","D","E","F","G","H","I","J","K","L","M",
           "N","O","P","Q","R","S","T","U","V","W","X","Y","Z">>

LOWER == <<"a","b","c","d","e","f","g","h","i","j","k","l","m",
           "n","o","p","q","r","s","t","u","v","w","x","y","z">>

DIGITS == <<"0","1","2","3","4","5","6","7","8","9">>

Whitespace == {" ", "\t", "\n"}

LowerOf == [c \in {UPPER[i] : i \in 1..26} |-> LOWER[CHOOSE i \in 1..26 : UPPER[i] = c]]

LowerChar(c) == IF c \in DOMAIN LowerOf THEN LowerOf[c] ELSE c

\* str.lower()
Lower(s) == [i \in 1..Len(s) |-> LowerChar(s[i])]

\* str.strip()
RECURSIVE LStrip(_)
LStrip(s) ==
    IF s # <<>> /\ Head(s) \in Whitespace THEN LStrip(Tail(s)) ELSE s

RECURSIVE RStrip(_)
RStrip(s) ==
    IF s # <<>> /\ s[Len(s)] \in Whitespace THEN RStrip(SubSeq(s, 1, Len(s) - 1)) ELSE s

Strip(s) == RStrip(LStrip(s))

\* the "sub in s" test on text
Contains(s, sub) ==
    \E i \in 0..(Len(s) - Len(sub)) : SubSeq(s, i + 1, i + Len(sub)) = sub

RECURSIVE NatToText(_)
NatToText(n) ==
    IF n < 10 THEN <<DIGITS[n + 1]>>
    ELSE NatToText(n \div 10) \o <<DIGITS[(n % 10) + 1]>>

IntToText(n) == IF n < 0 THEN <<"-">> \o NatToText(0 - n) ELSE NatToText(n)

\* str(value)
Str(v) ==
    CASE v.t = "str"   -> v.s
      [] v.t = "none"  -> <<"N","o","n","e">>
      [] v.t = "int"   -> IntToText(v.n)
      [] v.t = "float" ->
           (IF v.n < 0 THEN <<"-">> ELSE <<>>)
           \o NatToText((IF v.n < 0 THEN 0 - v.n ELSE v.n) \div 10)
           \o <<".">>
           \o NatToText((IF v.n < 0 THEN 0 - v.n ELSE v.n) % 10)

\* str(value).strip().lower()
Normalize(v) == Lower(Strip(Str(v)))

IsDigit(c) == \E i \in 1..10 : DIGITS[i] = c

DigitValue(c) == (CHOOSE i \in 1..10 : DIGITS[i] = c) - 1

RECURSIVE DigitsValue(_)
DigitsValue(s) ==
    IF s = <<>> THEN 0
    ELSE 10 * DigitsValue(SubSeq(s, 1, Len(s) - 1)) + DigitValue(s[Len(s)])

(***************************************************************************)
(* float(text) for the decimal forms the feeds of this model hold:         *)
(* optional surrounding whitespace, an optional sign, digits, and at most  *)
(* one fractional digit.  The result is in tenths; ok = FALSE is           *)
(* ValueError.                                                             *)
(***************************************************************************)
ParseFloat(text) ==
    LET value(neg, dots, ip, fp) ==
            IF /\ dots <= 1
               /\ Len(ip) + Len(fp) >= 1
               /\ Len(fp) <= 1
               /\ \A i \in 1..Len(ip) : IsDigit(ip[i])
               /\ \A i \in 1..Len(fp) : IsDigit(fp[i])
            THEN [ok |-> TRUE,
                  tenths |-> (IF neg THEN -1 ELSE 1)
                             * (10 * DigitsValue(ip) + DigitsValue(fp))]
            ELSE [ok |-> FALSE, tenths |-> 0]
        split(neg, body, dot) ==
            value(neg, Cardinality(dot),
                  IF dot = {} THEN body
                  ELSE SubSeq(body, 1, (CHOOSE i \in dot : TRUE) - 1),
                  IF dot = {} THEN <<>>
                  ELSE SubSeq(body, (CHOOSE i \in dot : TRUE) + 1, Len(body)))
        unsigned(neg, body) == split(neg, body, {i \in 1..Len(body) : body[i] = "."})
        signed(s) ==
            IF s # <<>> /\ s[1] = "-" THEN unsigned(TRUE, Tail(s)) ELSE unsigned(FALSE, s)
    IN  signed(Strip(text))

\* float(value): TypeError on None, ValueError on non-numeric text
ToFloat(v) ==
    CASE v.t = "int"   -> [ok |-> TRUE, tenths |-> 10 * v.n]
      [] v.t = "float" -> [ok |-> TRUE, tenths |-> v.n]
      [] v.t = "str"   -> ParseFloat(v.s)
      [] OTHER         -> [ok |-> FALSE, tenths |-> 0]

\* int(x) of a float given in tenths: truncation toward zero
TruncTenths(x) == IF x >= 0 THEN x \div 10 ELSE 0 - ((0 - x) \div 10)

\* int(value) with no float() first: text with a decimal point is ValueError
safe_int_direct(value) ==
    LET int(f) ==
            IF f.ok /\ ~(value.t = "str" /\ \E i \in 1..Len(value.s) : value.s[i] = ".")
            THEN TruncTenths(f.tenths) ELSE 0
    IN  int(ToFloat(value))

safe_int(value) ==
    LET int(f) == IF f.ok THEN TruncTenths(f.tenths) ELSE 0
    IN  int(ToFloat(value))

clamp(val, low, high) ==
    LET m == IF high < val THEN high ELSE val
    IN  IF low > m THEN low ELSE m

\* round() of the exact quotient n / d, d > 0, to the nearest integer, a tie
\* going to the even neighbour
RoundDiv(n, d) ==
    LET q == n \div d
        r == n % d
    IN  IF 2 * r < d THEN q
        ELSE IF 2 * r > d THEN q + 1
        ELSE IF q % 2 = 0 THEN q ELSE q + 1

(***************************************************************************)
(* Text literals of the source                                             *)
(***************************************************************************)
T_randomsite == <<"r","a","n","d","o","m","s","i","t","e">>

T_cheapcert == <<"c","h","e","a","p","c","e","r","t">>

T_telegram == <<"t","e","l","e","g","r","a","m">>

T_freepdf == <<"f","r","e","e","p","d","f">>

T_google == <<"g","o","o","g","l","e">>

T_microsoft == <<"m","i","c","r","o","s","o","f","t">>

T_aws == <<"a","w","s">>

T_ibm == <<"i","b","m">>

T_nptel == <<"n","p","t","e","l">>

T_coursera == <<"c","o","u","r","s","e","r","a">>

T_unknown == <<"u","n","k","n","o","w","n">>

T_professional == <<"p","r","o","f","e","s","s","i","o","n","a","l">>

T_short_program == <<"s","h","o","r","t","_","p","r","o","g","r","a","m">>

T_workshop == <<"w","o","r","k","s","h","o","p">>

T_conference == <<"c","o","n","f","e","r","e","n","c","e">>

T_student_coordinator == <<"s","t","u","d","e","n","t","_","c","o","o","r","d","i","n","a","t","o","r">>

T_yes == <<"y","e","s">>

T_no == <<"n","o">>

T_cse == <<"c","s","e">>

T_aiml == <<"a","i","m","l">>

T_ece == <<"e","c","e">>

T_mech == <<"m","e","c","h">>

T_civil == <<"c","i","v","i","l">>

T_eee == <<"e","e","e">>

T_at_risk == <<"a","t"," ","r","i","s","k">>

T_critical == <<"c","r","i","t","i","c","a","l">>

T_skills == <<"s","k","i","l","l","s">>

T_health == <<"h","e","a","l","t","h">>

(***************************************************************************)
(* Certificate credibility engine.  weight is in tenths.                   *)
(***************************************************************************)
fake_sources == {T_randomsite, T_cheapcert, T_telegram, T_freepdf}

premium_sources == {T_google, T_microsoft, T_aws, T_ibm, T_nptel, T_coursera}

certificate_credibility_no_strip(cert_type, cert_source) ==
    LET rate(src) ==
            IF src \in fake_sources
            THEN [weight |-> -4, tag |-> "FAKE / ZERO VALUE"]
            ELSE IF src \in premium_sources
            THEN [weight |-> 10, tag |-> "HIGH CREDIBILITY"]
            ELSE [weight |-> 4, tag |-> "LOW CREDIBILITY"]
    IN  rate(Lower(Str(cert_source)))

certificate_credibility(cert_type, cert_source) ==
    LET rate(src) ==
            IF src \in fake_sources
            THEN [weight |-> -4, tag |-> "FAKE / ZERO VALUE"]
            ELSE IF src \in premium_sources
            THEN [weight |-> 10, tag |-> "HIGH CREDIBILITY"]
            ELSE [weight |-> 4, tag |-> "LOW CREDIBILITY"]
    IN  rate(Normalize(cert_source))

(***************************************************************************)
(* Self-learning adaptive weights engine.  data is the outcome feed the    *)
(* call to get_outcomes_data() returned; weights are in hundredths.        *)
(***************************************************************************)
OutcomeCert(r) == Normalize(Get(r, "cert_type", PyStr(T_student_coordinator)))

OutcomePlaced_raw(r) == Str(Get(r, "placed", PyStr(T_no))) = T_yes

OutcomePlaced(r) == Normalize(Get(r, "placed", PyStr(T_no))) = T_yes

\* stats[cert]["yes"] and stats[cert]["no"] after the loop over data
StatsYes(data, cert) ==
    Cardinality({i \in 1..Len(data) : OutcomeCert(data[i]) = cert /\ OutcomePlaced(data[i])})

StatsNo(data, cert) ==
    Cardinality({i \in 1..Len(data) : OutcomeCert(data[i]) = cert /\ ~OutcomePlaced(data[i])})

learn_from_outcomes(data) ==
    LET weight(yes, no) ==
            IF yes + no # 0 THEN RoundDiv(100 * yes, yes + no) ELSE 20
    IN  [cert \in {OutcomeCert(data[i]) : i \in 1..Len(data)} |->
            weight(StatsYes(data, cert), StatsNo(data, cert))]

base_weights ==
    (T_professional :> 100) @@ (T_short_program :> 70) @@ (T_workshop :> 40)
    @@ (T_conference :> 30) @@ (T_student_coordinator :> 20)

certificate_weight_adaptive_only(cert_type, data) ==
    LET resolve(adaptive, key) ==
            IF key \in DOMAIN adaptive THEN adaptive[key] ELSE 20
    IN  resolve(learn_from_outcomes(data), Normalize(cert_type))

certificate_weight(cert_type, data) ==
    LET resolve(adaptive, key) ==
            IF key \in DOMAIN adaptive THEN adaptive[key]
            ELSE IF key \in DOMAIN base_weights THEN base_weights[key]
            ELSE 20
    IN  resolve(learn_from_outcomes(data), Normalize(cert_type))

(***************************************************************************)
(* CSI core engine.  csi and cert_score are in hundredths.                 *)
(***************************************************************************)
final_csi(student, data) ==
    LET score(attendance, internal_avg, cred_weight, adaptive_factor) ==
            [csi |-> clamp((40 * attendance + 40 * internal_avg)
                               + adaptive_factor * cred_weight, 0, 10000),
             cert_score |-> adaptive_factor * cred_weight]
        cert_type == Get(student, "cert_type", PyStr(T_student_coordinator))
    IN  score(safe_int(Get(student, "attendance", PyNone)),
              safe_int(Get(student, "internal_avg", PyNone)),
              certificate_credibility(
                  cert_type, Get(student, "cert_source", PyStr(T_unknown))).weight,
              certificate_weight(cert_type, data))

StatusOf(csi) ==
    IF csi >= 8000 THEN "Stable" ELSE IF csi >= 6000 THEN "At Risk" ELSE "Critical"

(***************************************************************************)
(* CSI explanation engine                                                  *)
(***************************************************************************)
explain_csi(att, avg, cert_score) ==
    LET reasons ==
            (IF att < 75 THEN <<"Low attendance">> ELSE <<>>)
            \o (IF avg < 65 THEN <<"Low internal marks">> ELSE <<>>)
            \o (IF cert_score < 400 THEN <<"Low quality certifications">> ELSE <<>>)
    IN  IF reasons # <<>> THEN reasons ELSE <<"Healthy performance">>

(***************************************************************************)
(* Risk timeline engine.  Days are in tenths.  The quotient x / rate is    *)
(* held exactly as num / den and clamped before it is rounded, as the code *)
(* does.                                                                   *)
(***************************************************************************)
\* round(clamp(num / den, lo, hi)) for den > 0 and integer lo, hi
ClampRound(num, den, lo, hi) ==
    IF num <= lo * den THEN lo
    ELSE IF num >= hi * den THEN hi
    ELSE RoundDiv(num, den)

\* 60 * decay_rate
DecayRate60(att, avg, cert_score) ==
    LET cert_gap == IF cert_score <= 200 THEN 1 ELSE 0
        raw      == (75 - att) + 2 * (65 - avg) + 20 * cert_gap
    IN  IF raw > 30 THEN raw ELSE 30

\* 1000 * recovery_rate
RecoveryRate1000(cert_score) == 1000 + 3 * cert_score

risk_timeline_no_clamp(att, avg, cert_score, csi) ==
    LET decay    == DecayRate60(att, avg, cert_score)
        recovery == RecoveryRate1000(cert_score)
        sgn      == IF recovery < 0 THEN -1 ELSE 1
    IN  IF recovery = 0
        THEN [err |-> "ZeroDivisionError", days_to_critical |-> 0, days_to_save |-> 0]
        ELSE [err |-> "",
              days_to_critical |-> RoundDiv((csi - 5900) * 6, decay),
              days_to_save |-> RoundDiv(sgn * (8000 - csi) * 100, sgn * recovery)]

\* the two day counts returned in the other order
risk_timeline_swapped(att, avg, cert_score, csi) ==
    LET decay    == DecayRate60(att, avg, cert_score)
        recovery == RecoveryRate1000(cert_score)
        sgn      == IF recovery < 0 THEN -1 ELSE 1
    IN  IF recovery = 0
        THEN [err |-> "ZeroDivisionError", days_to_critical |-> 0, days_to_save |-> 0]
        ELSE [err |-> "",
              days_to_critical |->
                  ClampRound(sgn * (8000 - csi) * 100, sgn * recovery, 0, 900),
              days_to_save |-> ClampRound((csi - 5900) * 6, decay, 0, 1200)]

risk_timeline(att, avg, cert_score, csi) ==
    LET decay    == DecayRate60(att, avg, cert_score)
        recovery == RecoveryRate1000(cert_score)
        sgn      == IF recovery < 0 THEN -1 ELSE 1
    IN  IF recovery = 0
        THEN [err |-> "ZeroDivisionError", days_to_critical |-> 0, days_to_save |-> 0]
        ELSE [err |-> "",
              days_to_critical |-> ClampRound((csi - 5900) * 6, decay, 0, 1200),
              days_to_save |->
                  ClampRound(sgn * (8000 - csi) * 100, sgn * recovery, 0, 900)]

(***************************************************************************)
(* Dropout probability engine.  dropout_prob is in hundredths.             *)
(***************************************************************************)
dropout_engine(att, avg, cert_score, csi, days_critical) ==
    [dropout_prob |->
         ClampRound((8000 - csi) + 100 * (75 - att) + 100 * (65 - avg)
                        + (IF cert_score <= 200 THEN 2000 ELSE 0),
                    2, 0, 10000),
     urgency |-> IF days_critical < 300 THEN "HIGH"
                 ELSE IF days_critical < 600 THEN "MEDIUM"
                 ELSE "LOW"]

(***************************************************************************)
(* Placement probability engine.  The result is not rounded by the code;   *)
(* it is in two-hundredths.                                                *)
(***************************************************************************)
placement_probability_engine(csi, employability) ==
    clamp(csi + employability, 0, 20000)

salary_time_estimator(priority_score) ==
    IF priority_score < 1000 THEN "2-3 months"
    ELSE IF priority_score < 1500 THEN "4-6 months"
    ELSE "6-9 months"

(***************************************************************************)
(* Branch roadmap engine.  branch.lower() exists on text only.             *)
(***************************************************************************)
base_roadmaps ==
    (T_cse :> <<"Python", "DSA", "SQL", "Git", "Internship">>)
    @@ (T_aiml :> <<"Python", "ML", "DL", "SQL", "Internship">>)
    @@ (T_ece :> <<"Embedded C", "IoT", "MATLAB">>)
    @@ (T_mech :> <<"SolidWorks", "Manufacturing">>)
    @@ (T_civil :> <<"AutoCAD", "ETABS", "STAAD">>)
    @@ (T_eee :> <<"PLC", "SCADA", "MATLAB">>)

branch_roadmap(branch, reasons) ==
    IF branch.t # "str" THEN [err |-> "AttributeError", roadmap |-> <<>>]
    ELSE
    LET key == Lower(branch.s)
        r0  == IF key \in DOMAIN base_roadmaps THEN base_roadmaps[key]
               ELSE <<"Soft Skills", "Internship">>
        r1  == IF \E i \in 1..Len(reasons) : reasons[i] = "Low attendance"
               THEN <<"Attendance mentoring">> \o r0 ELSE r0
        r2  == IF \E i \in 1..Len(reasons) : reasons[i] = "Low internal marks"
               THEN <<"Core subject revision">> \o r1 ELSE r1
        r3  == IF \E i \in 1..Len(reasons) : reasons[i] = "Low quality certifications"
               THEN <<"Mandatory professional certification">> \o r2 ELSE r2
    IN  [err |-> "", roadmap |-> r3]

(***************************************************************************)
(* Skill intelligence and employability engine.  Skill weights are in      *)
(* tenths, employability in hundredths.                                    *)
(***************************************************************************)
skill_map ==
    (T_cse :> <<"Python", "DSA", "SQL", "Git", "Internship">>)
    @@ (T_aiml :> <<"Python", "ML", "DL", "SQL", "Internship">>)
    @@ (T_ece :> <<"Embedded C", "IoT", "MATLAB">>)
    @@ (T_mech :> <<"SolidWorks", "Manufacturing">>)
    @@ (T_civil :> <<"AutoCAD", "ETABS">>)
    @@ (T_eee :> <<"PLC", "SCADA">>)

skill_weights ==
    ("Python" :> 12) @@ ("DSA" :> 14) @@ ("ML" :> 13) @@ ("DL" :> 12)
    @@ ("SQL" :> 11) @@ ("Internship" :> 15) @@ ("Git" :> 10)
    @@ ("Embedded C" :> 12) @@ ("IoT" :> 11)

skill_intelligence(branch, cert_score, csi) ==
    IF branch.t # "str"
    THEN [err |-> "AttributeError", weak_skills |-> <<>>, dominant_skill |-> "",
          success_path |-> <<>>, employability |-> 0]
    ELSE
    LET key       == Lower(branch.s)
        skills    == IF key \in DOMAIN skill_map THEN skill_map[key]
                     ELSE <<"Soft Skills">>
        dominant  == skills[1]
        weight    == IF dominant \in DOMAIN skill_weights
                     THEN skill_weights[dominant] ELSE 10
    IN  [err |-> "",
         weak_skills |-> IF cert_score > 400 THEN SubSeq(skills, 3, Len(skills))
                         ELSE skills,
         dominant_skill |-> dominant,
         success_path |-> <<"Can survive and grow via ", dominant, "-centric roles">>,
         employability |-> ClampRound(csi * weight, 10, 0, 10000)]

(***************************************************************************)
(* Daily recovery planner                                                  *)
(***************************************************************************)
daily_recovery_planner(branch, reasons, days_to_save, dominant_skill) ==
    LET has(tag) == \E i \in 1..Len(reasons) : reasons[i] = tag
        plan ==
            (IF has("Low attendance")
             THEN <<[task |-> <<"Attend all classes">>, hours |-> 6]>> ELSE <<>>)
            \o (IF has("Low internal marks")
                THEN <<[task |-> <<"Revise core subjects">>, hours |-> 3]>> ELSE <<>>)
            \o (IF has("Low quality certifications")
                THEN <<[task |-> <<"Complete one professional certification">>,
                        hours |-> 2]>>
                ELSE <<>>)
            \o <<[task |-> <<dominant_skill, " daily practice">>, hours |-> 2],
                 [task |-> <<"Mock interview / Resume improvement">>, hours |-> 1]>>
        RECURSIVE SumHours(_)
        SumHours(p) == IF p = <<>> THEN 0 ELSE Head(p).hours + SumHours(Tail(p))
    IN  [daily_hours_required |-> SumHours(plan),
         days_required |-> days_to_save \div 10,
         daily_plan |-> plan]

(***************************************************************************)
(* Company reality mapper                                                  *)
(***************************************************************************)
company_reality_mapper(dominant_skill, csi, employability) ==
    IF dominant_skill = "Python"
    THEN [target_companies |-> <<"TCS", "Accenture", "Infosys", "Zoho">>,
          expected_salary |-> IF employability < 8000 THEN "4-7 LPA" ELSE "7-12 LPA",
          skill_blockers |-> IF employability < 8000
                             THEN <<"DSA", "SQL", "Projects">>
                             ELSE <<"System Design">>]
    ELSE IF dominant_skill \in {"ML", "DL"}
    THEN [target_companies |-> <<"Fractal", "Tiger Analytics", "Mu Sigma">>,
          expected_salary |-> IF employability < 8000 THEN "6-10 LPA" ELSE "10-18 LPA",
          skill_blockers |-> <<"Model deployment", "End-to-end projects">>]
    ELSE [target_companies |-> <<"Wipro", "HCL">>,
          expected_salary |-> "2-4 LPA",
          skill_blockers |-> <<"Core skill depth">>]

(***************************************************************************)
(* Intervention priority engine.  The result is in hundredths; the         *)
(* product before rounding is held exactly as num / 2.                     *)
(***************************************************************************)
\* round(priority, 2) with no max(priority, 0)
intervention_priority_no_floor(csi, cert_score, attendance) ==
    LET num == (8000 - csi)
               * (IF cert_score < 700 THEN 2 ELSE 1)
               * (IF attendance < 70 THEN 3 ELSE 2)
    IN  IF num >= 0 THEN RoundDiv(num, 2) ELSE 0 - RoundDiv(0 - num, 2)

intervention_priority(csi, cert_score, attendance) ==
    LET num == (8000 - csi)
               * (IF cert_score < 700 THEN 2 ELSE 1)
               * (IF attendance < 70 THEN 3 ELSE 2)
    IN  IF num <= 0 THEN 0 ELSE RoundDiv(num, 2)

(***************************************************************************)
(* The per-student chain of student_intelligence: the body of its loop for *)
(* one row s, scored against the outcome feed data.  err names the         *)
(* exception the chain raises, "" when it raises none.                     *)
(***************************************************************************)
NoRecord(err) == [err |-> err, record |-> <<>>]

\* The locals of the loop body are the parameters of three stages: the
\* parsed numbers and scores, then what the engines derive from them, then
\* the record.
AnalyticsRecord(s, data) ==
    LET append(fc, branch, reasons, rt, si, prio, de, rm, plan) ==
            IF rt.err # "" THEN NoRecord(rt.err)
            ELSE IF rm.err # "" THEN NoRecord(rm.err)
            ELSE IF si.err # "" THEN NoRecord(si.err)
            ELSE [err |-> "",
                  record |->
                    [id |-> Get(s, "id", PyStr(<<>>)),
                     name |-> Get(s, "name", PyStr(<<>>)),
                     branch |-> branch,
                     csi |-> fc.csi,
                     status |-> StatusOf(fc.csi),
                     reasons |-> reasons,
                     critical_in_days |-> rt.days_to_critical,
                     dropout_probability |-> de.dropout_prob,
                     rescue_urgency |-> de.urgency,
                     days_to_save |-> rt.days_to_save,
                     priority_score |-> prio,
                     roadmap |-> rm.roadmap,
                     weak_skills |-> si.weak_skills,
                     dominant_skill |-> si.dominant_skill,
                     success_path |-> si.success_path,
                     employability_score |-> si.employability,
                     placement_probability |->
                         placement_probability_engine(fc.csi, si.employability),
                     daily_recovery_plan |-> plan,
                     company_path |->
                         company_reality_mapper(si.dominant_skill, fc.csi,
                                                si.employability),
                     certificate_credibility |->
                         certificate_credibility(Get(s, "cert_type", PyStr(<<>>)),
                                                 Get(s, "cert_source", PyStr(<<>>))).tag,
                     income_timeline |-> salary_time_estimator(prio)]]
        engines(att, avg, fc, branch, reasons, rt, si, prio) ==
            append(fc, branch, reasons, rt, si, prio,
                   dropout_engine(att, avg, fc.cert_score, fc.csi, rt.days_to_critical),
                   branch_roadmap(branch, reasons),
                   daily_recovery_planner(branch, reasons, rt.days_to_save,
                                          si.dominant_skill))
        scored(att, avg, fc, branch) ==
            engines(att, avg, fc, branch,
                    explain_csi(att, avg, fc.cert_score),
                    risk_timeline(att, avg, fc.cert_score, fc.csi),
                    skill_intelligence(branch, fc.cert_score, fc.csi),
                    intervention_priority(fc.csi, fc.cert_score, att))
    IN  scored(safe_int(Get(s, "attendance", PyNone)),
               safe_int(Get(s, "internal_avg", PyNone)),
               final_csi(s, data),
               Get(s, "branch", PyStr(<<>>)))

\* the urgency mentor_queue computes for row s
UrgencyOf(s, data) ==
    LET urgent(att, avg, fc, rt) ==
            [err |-> rt.err,
             urgency |-> dropout_engine(att, avg, fc.cert_score, fc.csi,
                                        rt.days_to_critical).urgency]
        scored(att, avg, fc) ==
            urgent(att, avg, fc, risk_timeline(att, avg, fc.cert_score, fc.csi))
    IN  scored(safe_int(Get(s, "attendance", PyNone)),
               safe_int(Get(s, "internal_avg", PyNone)),
               final_csi(s, data))

MentorEntry(s, urgency) ==
    [name |-> Get(s, "name", PyStr(<<>>)),
     branch |-> Get(s, "branch", PyStr(<<>>)),
     urgency |-> urgency,
     action |-> IF urgency = "HIGH" THEN "Immediate 1-on-1 mentoring"
                ELSE "Group mentoring + certification plan"]

(***************************************************************************)
(* TTL cache.  loaded = FALSE is _data being None.                         *)
(***************************************************************************)
CACHE_TTL_SECONDS == 60

EmptyCache == [loaded |-> FALSE, data |-> <<>>, timestamp |-> 0]

\* the cache after get(loader) at time now, the loader returning sheet; the
\* value get returns is the data field of the result
TTLCache_get(cache, sheet, now) ==
    IF ~cache.loaded \/ (now - cache.timestamp) > CACHE_TTL_SECONDS
    THEN [loaded |-> TRUE, data |-> sheet, timestamp |-> now]
    ELSE cache

(***************************************************************************)
(* The server: the sheets, the TTL caches over them, the clock, and one    *)
(* request at a time running a handler that loops over the student feed.   *)
(* A looping handler takes one step per student, because every final_csi   *)
(* call reads the outcome feed through its cache again; the clock and      *)
(* outcome_feedback may act between two steps.                             *)
(***************************************************************************)
VARIABLES
    students_sheet,   \* rows of the "students" worksheet
    outcomes_sheet,   \* rows of the "outcomes" worksheet
    students_cache,   \* TTLCache over students_sheet
    outcomes_cache,   \* TTLCache over outcomes_sheet
    clock,            \* time.time(), in seconds
    req,              \* the request in progress: handler, its locals
    results,          \* the list or counters the handler in progress builds
    response,         \* what the last finished request returned or raised
    last_run,         \* history: the last student_intelligence run that returned:
                      \* the feeds it read, its records, and whether the run
                      \* before it had read the same feeds
    fn                \* the pure-function harness (SpecLearn, SpecScore)

vars == <<students_sheet, outcomes_sheet, students_cache, outcomes_cache,
          clock, req, results, response, last_run, fn>>

MaxOutcomes == 2

MaxTicks == 2

TickSeconds == 40

Row(id, name, branch, attendance, internal_avg, cert_type, cert_source) ==
    [id |-> id, name |-> name, branch |-> branch, attendance |-> attendance,
     internal_avg |-> internal_avg, cert_type |-> cert_type,
     cert_source |-> cert_source]

\* Stable or At Risk with the outcome feed; urgency LOW or MEDIUM
StudentTop ==
    Row(PyInt(1), PyStr(<<"T","a","r","a">>), PyStr(<<"C","S","E">>),
        PyInt(100), PyInt(100), PyStr(T_professional), PyStr(T_google))

\* a fake-sourced certificate, numeric text in a numeric column
StudentFake ==
    Row(PyInt(3), PyStr(<<"F","a","y">>), PyStr(T_mech),
        PyStr(<<"6","0">>), PyInt(50), PyStr(T_student_coordinator),
        PyStr(<<" ","T","e","l","e","g","r","a","m"," ">>))

\* a branch cell holding a number, a blank attendance, no certificate columns
StudentNumericBranch ==
    Row(PyInt(4), PyStr(<<"N","i","a">>), PyInt(2024),
        PyStr(<<>>), PyInt(70), Missing, Missing)

\* the student feeds of the server specification: empty, one row, rows of all
\* three urgencies in either order, the same row twice, a row the chain fails on
StudentFeeds ==
    {<<>>,
     <<StudentTop>>,
     <<StudentFake, StudentTop>>,
     <<StudentTop, StudentFake>>,
     <<StudentTop, StudentTop>>,
     <<StudentNumericBranch>>,
     <<StudentFake, StudentNumericBranch>>}

OutcomeRow(cert_type, placed) == [cert_type |-> cert_type, placed |-> placed]

InitialOutcomes == <<OutcomeRow(PyStr(T_professional), PyStr(<<"Y","e","s">>))>>

FeedbackPool == {OutcomeRow(PyStr(<<"P","r","o","f","e","s","s","i","o","n","a","l"," ">>), PyStr(T_no))}

skills_sheet == <<[skill |-> "Python", demand |-> "high"]>>

Q_health == <<"H","e","a","l","t","h","?">>

Q_at_risk == <<"w","h","o"," ","i","s"," ","A","t"," ","R","i","s","k">>

Q_critical == <<"c","r","i","t","i","c","a","l"," ","s","k","i","l","l","s">>

Q_skills == <<"s","k","i","l","l","s"," ","h","e","a","l","t","h">>

Q_other == <<"h","i">>

Questions == {Q_health, Q_at_risk, Q_critical, Q_skills, Q_other}

Idle == [op |-> "idle", students |-> <<>>, i |-> 0, reads |-> <<>>, intent |-> ""]

NoResponse == [op |-> "", status |-> "", body |-> <<>>, students |-> <<>>,
               reads |-> <<>>, intent |-> ""]

NoRun == [valid |-> FALSE, students |-> <<>>, reads |-> <<>>, body |-> <<>>,
          repeated |-> FALSE]

FnIdle == [phase |-> "off"]

Init ==
    /\ students_sheet \in StudentFeeds
    /\ outcomes_sheet = InitialOutcomes
    /\ students_cache = EmptyCache
    /\ outcomes_cache = EmptyCache
    /\ clock = 0
    /\ req = Idle
    /\ results = <<>>
    /\ response = NoResponse
    /\ last_run = NoRun
    /\ fn = FnIdle

\* time passes
Tick ==
    /\ clock + TickSeconds <= MaxTicks * TickSeconds
    /\ clock' = clock + TickSeconds
    /\ UNCHANGED <<students_sheet, outcomes_sheet, students_cache,
                   outcomes_cache, req, results, response, last_run, fn>>

\* POST /outcome_feedback: one row appended to the outcomes worksheet
outcome_feedback ==
    /\ Len(outcomes_sheet) < MaxOutcomes
    /\ \E data \in FeedbackPool : outcomes_sheet' = Append(outcomes_sheet, data)
    /\ UNCHANGED <<students_sheet, students_cache, outcomes_cache,
                   clock, req, results, response, last_run, fn>>

\* the request ends: response is what it returned ("200"), what its own
\* except clause turned into HTTP 500 ("500"), or the exception it let escape
\* ("raised"), with the feed it ran over and the outcome feeds it read
Finish(op, status, body) ==
    /\ req' = Idle
    /\ results' = <<>>
    /\ response' = [op |-> op, status |-> status, body |-> body,
                    students |-> req.students, reads |-> req.reads,
                    intent |-> req.intent]

\* get_students_data() at the head of a handler
BeginLoop(op, intent) ==
    /\ req.op = "idle"
    /\ students_cache' = TTLCache_get(students_cache, students_sheet, clock)
    /\ req' = [op |-> op, students |-> students_cache'.data, i |-> 1,
               reads |-> <<>>, intent |-> intent]
    /\ response' = NoResponse

\* get_outcomes_data() inside final_csi for the student at hand
ReadOutcomes == outcomes_cache' = TTLCache_get(outcomes_cache, outcomes_sheet, clock)

Advance == req' = [req EXCEPT !.i = @ + 1, !.reads = Append(@, outcomes_cache'.data)]

Looping(op) == req.op = op /\ req.i <= Len(req.students)

LoopDone(op) == req.op = op /\ req.i > Len(req.students)

(***************************************************************************)
(* GET /student_intelligence                                               *)
(***************************************************************************)
student_intelligence_begin_stale ==
    /\ BeginLoop("student_intelligence", "")
    /\ results' = IF response.op = "student_intelligence" /\ response.status = "200"
                  THEN response.body ELSE <<>>
    /\ UNCHANGED <<students_sheet, outcomes_sheet, outcomes_cache,
                   clock, last_run, fn>>

student_intelligence_begin ==
    /\ BeginLoop("student_intelligence", "")
    /\ results' = <<>>
    /\ UNCHANGED <<students_sheet, outcomes_sheet, outcomes_cache,
                   clock, last_run, fn>>

student_intelligence_step ==
    /\ Looping("student_intelligence")
    /\ ReadOutcomes
    /\ LET body(row) ==
               IF row.err # ""
               THEN /\ Finish("student_intelligence", "500", row.err)
               ELSE /\ results' = Append(results, row.record)
                    /\ Advance
                    /\ UNCHANGED response
       IN  body(AnalyticsRecord(req.students[req.i], outcomes_cache'.data))
    /\ UNCHANGED <<students_sheet, outcomes_sheet, students_cache,
                   clock, last_run, fn>>

student_intelligence_return ==
    /\ LoopDone("student_intelligence")
    /\ Finish("student_intelligence", "200", results)
    /\ last_run' = [valid |-> TRUE,
                    students |-> req.students,
                    reads |-> req.reads,
                    body |-> results,
                    repeated |-> /\ last_run.valid
                                 /\ last_run.students = req.students
                                 /\ last_run.reads = req.reads]
    /\ UNCHANGED <<students_sheet, outcomes_sheet, students_cache,
                   outcomes_cache, clock, fn>>

(***************************************************************************)
(* GET /kpi_summary.  results holds stable, at_risk, critical, total_csi.  *)
(***************************************************************************)
ZeroCounts == [stable |-> 0, at_risk |-> 0, critical |-> 0, total_csi |-> 0]

Count(counts, csi) ==
    [stable    |-> counts.stable + (IF csi >= 8000 THEN 1 ELSE 0),
     at_risk   |-> counts.at_risk + (IF csi < 8000 /\ csi >= 6000 THEN 1 ELSE 0),
     critical  |-> counts.critical + (IF csi < 6000 THEN 1 ELSE 0),
     total_csi |-> counts.total_csi + csi]

\* the value kpi_summary returns; err names the exception it raises instead
kpi_summary_result_unguarded(total, counts) ==
    IF total = 0
    THEN [err |-> "ZeroDivisionError", body |-> <<>>]
    ELSE [err |-> "",
          body |-> [total_students |-> total, stable |-> counts.stable,
                    at_risk |-> counts.at_risk, critical |-> counts.critical,
                    health_score |-> RoundDiv(counts.total_csi, total)]]

kpi_summary_result(total, counts) ==
    [err |-> "",
     body |-> [total_students |-> total, stable |-> counts.stable,
               at_risk |-> counts.at_risk, critical |-> counts.critical,
               health_score |-> IF total # 0 THEN RoundDiv(counts.total_csi, total)
                                ELSE 0]]

kpi_summary_begin ==
    /\ BeginLoop("kpi_summary", "")
    /\ results' = ZeroCounts
    /\ UNCHANGED <<students_sheet, outcomes_sheet, outcomes_cache,
                   clock, last_run, fn>>

kpi_summary_step ==
    /\ Looping("kpi_summary")
    /\ ReadOutcomes
    /\ results' = Count(results, final_csi(req.students[req.i], outcomes_cache'.data).csi)
    /\ Advance
    /\ UNCHANGED <<students_sheet, outcomes_sheet, students_cache,
                   clock, response, last_run, fn>>

kpi_summary_return ==
    /\ LoopDone("kpi_summary")
    /\ LET r == kpi_summary_result(Len(req.students), results)
       IN  IF r.err # "" THEN Finish("kpi_summary", "raised", r.err)
           ELSE Finish("kpi_summary", "200", r.body)
    /\ UNCHANGED <<students_sheet, outcomes_sheet, students_cache,
                   outcomes_cache, clock, last_run, fn>>

(***************************************************************************)
(* GET /batch_heatmap.  results.total_csi is not used by this handler.     *)
(***************************************************************************)
batch_heatmap_result(total, counts) ==
    [err |-> "",
     body |-> [total_students |-> total,
               distribution |-> [Stable |-> counts.stable, AtRisk |-> counts.at_risk,
                                 Critical |-> counts.critical],
               risk_percentage |-> IF total # 0
                                   THEN RoundDiv(counts.critical * 10000, total)
                                   ELSE 0]]

batch_heatmap_begin ==
    /\ BeginLoop("batch_heatmap", "")
    /\ results' = ZeroCounts
    /\ UNCHANGED <<students_sheet, outcomes_sheet, outcomes_cache,
                   clock, last_run, fn>>

batch_heatmap_step ==
    /\ Looping("batch_heatmap")
    /\ ReadOutcomes
    /\ results' = [Count(results, final_csi(req.students[req.i],
                                            outcomes_cache'.data).csi)
                       EXCEPT !.total_csi = 0]
    /\ Advance
    /\ UNCHANGED <<students_sheet, outcomes_sheet, students_cache,
                   clock, response, last_run, fn>>

batch_heatmap_return ==
    /\ LoopDone("batch_heatmap")
    /\ LET r == batch_heatmap_result(Len(req.students), results)
       IN  IF r.err # "" THEN Finish("batch_heatmap", "raised", r.err)
           ELSE Finish("batch_heatmap", "200", r.body)
    /\ UNCHANGED <<students_sheet, outcomes_sheet, students_cache,
                   outcomes_cache, clock, last_run, fn>>

(***************************************************************************)
(* GET /mentor_queue                                                       *)
(***************************************************************************)
InQueue_high_only(urgency) == urgency = "HIGH"

InQueue(urgency) == urgency \in {"HIGH", "MEDIUM"}

\* the queue after the loop body has run for row s, its urgency computed
mentor_queue_append(queue, s, urgency) ==
    IF InQueue(urgency) THEN Append(queue, MentorEntry(s, urgency)) ELSE queue

mentor_queue_begin ==
    /\ BeginLoop("mentor_queue", "")
    /\ results' = <<>>
    /\ UNCHANGED <<students_sheet, outcomes_sheet, outcomes_cache,
                   clock, last_run, fn>>

mentor_queue_step ==
    /\ Looping("mentor_queue")
    /\ ReadOutcomes
    /\ LET body(s, u) ==
               IF u.err # ""
               THEN /\ Finish("mentor_queue", "raised", u.err)
               ELSE /\ results' = mentor_queue_append(results, s, u.urgency)
                    /\ Advance
                    /\ UNCHANGED response
       IN  body(req.students[req.i],
                UrgencyOf(req.students[req.i], outcomes_cache'.data))
    /\ UNCHANGED <<students_sheet, outcomes_sheet, students_cache,
                   clock, last_run, fn>>

mentor_queue_return ==
    /\ LoopDone("mentor_queue")
    /\ Finish("mentor_queue", "200", results)
    /\ UNCHANGED <<students_sheet, outcomes_sheet, students_cache,
                   outcomes_cache, clock, last_run, fn>>

(***************************************************************************)
(* POST /assistant.  The intent is the first keyword the lowercased        *)
(* question contains; results holds the names collected, or the csi sum.   *)
(***************************************************************************)
IntentOf(question) ==
    LET q == Lower(question)
    IN  IF Contains(q, T_at_risk) THEN "at risk"
        ELSE IF Contains(q, T_critical) THEN "critical"
        ELSE IF Contains(q, T_skills) THEN "skills"
        ELSE IF Contains(q, T_health) THEN "health"
        ELSE "help"

\* the reply to "health" once the sum is taken; err names the exception
health_reply(total_csi, n) ==
    IF n = 0 THEN [err |-> "ZeroDivisionError", reply |-> <<>>]
    ELSE [err |-> "",
          reply |-> <<"Institution Health Score is ", RoundDiv(total_csi, n)>>]

assistant_begin ==
    /\ \E question \in Questions :
         LET intent == IntentOf(question)
         IN  /\ BeginLoop("assistant", intent)
             /\ results' = IF intent = "health" THEN 0 ELSE <<>>
    /\ UNCHANGED <<students_sheet, outcomes_sheet, outcomes_cache,
                   clock, last_run, fn>>

\* one element of the comprehension over students
assistant_step ==
    /\ Looping("assistant")
    /\ req.intent \in {"at risk", "critical", "health"}
    /\ ReadOutcomes
    /\ LET body(s, csi) ==
               LET hit == \/ req.intent = "at risk" /\ csi < 8000
                          \/ req.intent = "critical" /\ csi < 6000
               IN  IF hit /\ s["name"].t = "missing"
                   THEN /\ Finish("assistant", "raised", "KeyError")
                   ELSE /\ results' = IF req.intent = "health" THEN results + csi
                                      ELSE IF hit THEN Append(results, s["name"])
                                      ELSE results
                        /\ Advance
                        /\ UNCHANGED response
       IN  body(req.students[req.i],
                final_csi(req.students[req.i], outcomes_cache'.data).csi)
    /\ UNCHANGED <<students_sheet, outcomes_sheet, students_cache,
                   clock, last_run, fn>>

assistant_reply_list ==
    /\ LoopDone("assistant")
    /\ req.intent \in {"at risk", "critical"}
    /\ Finish("assistant", "200", [reply |-> results])
    /\ UNCHANGED <<students_sheet, outcomes_sheet, students_cache,
                   outcomes_cache, clock, last_run, fn>>

assistant_reply_skills ==
    /\ req.op = "assistant"
    /\ req.intent = "skills"
    /\ Finish("assistant", "200", [reply |-> skills_sheet])
    /\ UNCHANGED <<students_sheet, outcomes_sheet, students_cache, outcomes_cache,
                   clock, results, last_run, fn>>

assistant_reply_health ==
    /\ LoopDone("assistant")
    /\ req.intent = "health"
    /\ LET r == health_reply(results, Len(req.students))
       IN  IF r.err # "" THEN Finish("assistant", "raised", r.err)
           ELSE Finish("assistant", "200", [reply |-> r.reply])
    /\ UNCHANGED <<students_sheet, outcomes_sheet, students_cache,
                   outcomes_cache, clock, last_run, fn>>

assistant_reply_help ==
    /\ req.op = "assistant"
    /\ req.intent = "help"
    /\ Finish("assistant", "200",
              [reply |-> <<"Ask about: at risk, critical, skills, health">>])
    /\ UNCHANGED <<students_sheet, outcomes_sheet, students_cache,
                   outcomes_cache, clock, last_run, fn>>

Next ==
    \/ Tick
    \/ outcome_feedback
    \/ student_intelligence_begin
    \/ student_intelligence_step
    \/ student_intelligence_return
    \/ kpi_summary_begin
    \/ kpi_summary_step
    \/ kpi_summary_return
    \/ batch_heatmap_begin
    \/ batch_heatmap_step
    \/ batch_heatmap_return
    \/ mentor_queue_begin
    \/ mentor_queue_step
    \/ mentor_queue_return
    \/ assistant_begin
    \/ assistant_step
    \/ assistant_reply_list
    \/ assistant_reply_skills
    \/ assistant_reply_health
    \/ assistant_reply_help

Spec == Init /\ [][Next]_vars

(***************************************************************************)
(* The adaptive weight learner and the weight resolver on their own:       *)
(* outcome feeds of up to MaxLearnRows rows, and a cert_type to resolve.   *)
(***************************************************************************)
MaxLearnRows == 4

LearnRows ==
    {OutcomeRow(PyStr(<<"P","r","o","f","e","s","s","i","o","n","a","l">>),
                PyStr(<<" ","Y","E","S"," ">>)),
     OutcomeRow(PyStr(T_professional), PyStr(T_no)),
     OutcomeRow(PyStr(T_professional), PyStr(<<"p","e","n","d","i","n","g">>)),
     OutcomeRow(PyStr(<<" ","w","o","r","k","s","h","o","p">>), PyStr(<<>>)),
     OutcomeRow(Missing, Missing)}

LearnCertTypes ==
    {PyStr(<<"P","r","o","f","e","s","s","i","o","n","a","l"," ">>),
     PyStr(<<"W","o","r","k","s","h","o","p">>),
     PyStr(T_short_program),
     PyStr(T_conference),
     PyStr(T_student_coordinator),
     PyStr(<<"d","i","p","l","o","m","a">>),
     PyNone}

RECURSIVE SeqsUpTo(_, _)
SeqsUpTo(S, n) ==
    IF n = 0 THEN {<<>>}
    ELSE LET shorter == SeqsUpTo(S, n - 1)
         IN  shorter \cup {Append(q, x) : q \in {p \in shorter : Len(p) = n - 1}, x \in S}

ServerOff ==
    /\ students_sheet = <<>>
    /\ outcomes_sheet = <<>>
    /\ students_cache = EmptyCache
    /\ outcomes_cache = EmptyCache
    /\ clock = 0
    /\ req = Idle
    /\ results = <<>>
    /\ response = NoResponse
    /\ last_run = NoRun

ServerUnchanged ==
    UNCHANGED <<students_sheet, outcomes_sheet, students_cache, outcomes_cache,
                clock, req, results, response, last_run>>

InitLearn ==
    /\ ServerOff
    /\ \E data \in SeqsUpTo(LearnRows, MaxLearnRows), cert_type \in LearnCertTypes :
         fn = [phase |-> "input", data |-> data, cert_type |-> cert_type]

apply_learn_from_outcomes ==
    /\ fn.phase = "input"
    /\ fn' = [phase |-> "learned", data |-> fn.data, cert_type |-> fn.cert_type,
              weights |-> learn_from_outcomes(fn.data)]
    /\ ServerUnchanged

apply_certificate_weight ==
    /\ fn.phase = "input"
    /\ fn' = [phase |-> "resolved", data |-> fn.data, cert_type |-> fn.cert_type,
              weight |-> certificate_weight(fn.cert_type, fn.data)]
    /\ ServerUnchanged

NextLearn == apply_learn_from_outcomes \/ apply_certificate_weight

SpecLearn == InitLearn /\ [][NextLearn]_vars

(***************************************************************************)
(* The scoring chain on its own: one student row and one outcome feed of   *)
(* up to MaxScoreRows rows.                                                *)
(***************************************************************************)
MaxScoreRows == 2

ScoreAttendance ==
    {PyInt(-20), PyStr(<<"a","b","c">>), PyInt(60), PyStr(<<" ","8","9",".","5">>),
     PyInt(100), PyInt(150)}

ScoreInternalAvg == {PyNone, PyInt(50), PyInt(100)}

ScoreCertTypes ==
    {PyStr(<<"P","r","o","f","e","s","s","i","o","n","a","l">>), Missing, PyNone}

ScoreCertSources ==
    {PyStr(<<" ","T","e","l","e","g","r","a","m"," ">>), PyStr(<<"A","W","S">>),
     PyStr(<<"u","d","e","m","y">>), Missing}

ScoreBranches == {PyStr(<<"C","S","E">>), PyStr(T_civil)}

ScoreRows ==
    {OutcomeRow(PyStr(T_professional), PyStr(T_yes)),
     OutcomeRow(PyStr(T_professional), PyStr(T_no)),
     OutcomeRow(Missing, PyStr(T_yes))}

InitScore ==
    /\ ServerOff
    /\ \E attendance \in ScoreAttendance, internal_avg \in ScoreInternalAvg,
          cert_type \in ScoreCertTypes, cert_source \in ScoreCertSources,
          branch \in ScoreBranches, data \in SeqsUpTo(ScoreRows, MaxScoreRows) :
         fn = [phase |-> "input",
               student |-> Row(PyInt(1), PyStr(<<"S">>), branch, attendance,
                               internal_avg, cert_type, cert_source),
               data |-> data]

\* final_csi on the row, and on the same row with another attendance
apply_final_csi ==
    /\ fn.phase = "input"
    /\ \E attendance2 \in ScoreAttendance :
         LET other == [fn.student EXCEPT !.attendance = attendance2]
         IN  fn' = [phase |-> "csi", student |-> fn.student, data |-> fn.data,
                    other |-> other,
                    out |-> final_csi(fn.student, fn.data),
                    out_other |-> final_csi(other, fn.data)]
    /\ ServerUnchanged

\* the whole per-student chain on the row
apply_chain ==
    /\ fn.phase = "input"
    /\ fn' = [phase |-> "record", student |-> fn.student, data |-> fn.data,
              out |-> final_csi(fn.student, fn.data),
              row |-> AnalyticsRecord(fn.student, fn.data)]
    /\ ServerUnchanged

\* the body of mentor_queue's loop on the row, from an empty queue
apply_mentor_queue ==
    /\ fn.phase = "input"
    /\ LET queued(u) ==
               [phase |-> "queue", student |-> fn.student, data |-> fn.data,
                out |-> final_csi(fn.student, fn.data),
                err |-> u.err,
                queue |-> mentor_queue_append(<<>>, fn.student, u.urgency)]
       IN  fn' = queued(UrgencyOf(fn.student, fn.data))
    /\ ServerUnchanged

NextScore == apply_final_csi \/ apply_chain \/ apply_mentor_queue

SpecScore == InitScore /\ [][NextScore]_vars

(***************************************************************************)
(* The risk timeline and intervention priority engines on their own, on    *)
(* the numbers the chain can hand them: csi in hundredths is even (40 *    *)
(* (attendance + internal_avg) plus a learned weight times -4, 4 or 10,    *)
(* clamped to 0..10000), and cert_score lies in -400..1000.                *)
(***************************************************************************)
EngineAttendance == {0, 60, 69, 70, 75, 100}

EngineInternalAvg == {0, 50, 65, 100}

EngineCsi == {0, 4000, 4320, 5900, 5980, 6000, 7100, 7998, 8000, 8002, 10000}

EngineCertScore == {-400, -336, -332, -300, -80, 0, 200, 280, 400, 696, 700, 1000}

InitEngines ==
    /\ ServerOff
    /\ \E att \in EngineAttendance, avg \in EngineInternalAvg,
          csi \in EngineCsi, cert_score \in EngineCertScore :
         fn = [phase |-> "input", att |-> att, avg |-> avg, csi |-> csi,
               cert_score |-> cert_score]

\* risk_timeline on the numbers, and on the same numbers with another cert_score
apply_risk_timeline ==
    /\ fn.phase = "input"
    /\ \E cert_score2 \in EngineCertScore :
         fn' = [phase |-> "timeline", att |-> fn.att, avg |-> fn.avg, csi |-> fn.csi,
                cert_score |-> fn.cert_score, other |-> cert_score2,
                out |-> risk_timeline(fn.att, fn.avg, fn.cert_score, fn.csi),
                out_other |-> risk_timeline(fn.att, fn.avg, cert_score2, fn.csi)]
    /\ ServerUnchanged

apply_intervention_priority ==
    /\ fn.phase = "input"
    /\ fn' = [phase |-> "priority", att |-> fn.att, avg |-> fn.avg, csi |-> fn.csi,
              cert_score |-> fn.cert_score,
              out |-> intervention_priority(fn.csi, fn.cert_score, fn.att)]
    /\ ServerUnchanged

NextEngines == apply_risk_timeline \/ apply_intervention_priority

SpecEngines == InitEngines /\ [][NextEngines]_vars

(***************************************************************************)
(* TTLCache.get called from concurrent request threads, on outcomes_cache  *)
(* with the loader safe_sheet_fetch(outcomes_sheet).  fn holds, per        *)
(* thread, its position in get and its local now; lock is the thread       *)
(* holding self._lock, 0 when it is free.  loaded_at (history) is the      *)
(* clock when the loader returned the data now in the cache; ret (history) *)
(* is what each thread's last call returned.                               *)
(***************************************************************************)
Threads == {1, 2}

MaxCacheTicks == 3

CacheTickSeconds == 30

NoReturn == [valid |-> FALSE, data |-> <<>>, loaded_at |-> 0, now |-> 0, hit |-> FALSE]

InitCache ==
    /\ students_sheet = <<>>
    /\ outcomes_sheet = InitialOutcomes
    /\ students_cache = EmptyCache
    /\ outcomes_cache = EmptyCache
    /\ clock = 0
    /\ req = Idle
    /\ results = <<>>
    /\ response = NoResponse
    /\ last_run = NoRun
    /\ fn = [phase |-> "cache",
             pc |-> [t \in Threads |-> "idle"],
             now |-> [t \in Threads |-> 0],
             hit |-> [t \in Threads |-> FALSE],
             lock |-> 0,
             loaded_at |-> 0,
             ret |-> [t \in Threads |-> NoReturn]]

CacheUnchanged ==
    UNCHANGED <<students_sheet, outcomes_sheet, students_cache, clock,
                req, results, response, last_run>>

\* time passes, in steps that reach an age of exactly ttl
TickCache ==
    /\ clock + CacheTickSeconds <= MaxCacheTicks * CacheTickSeconds
    /\ clock' = clock + CacheTickSeconds
    /\ UNCHANGED <<students_sheet, outcomes_sheet, students_cache,
                   outcomes_cache, req, results, response, last_run, fn>>

\* now = time.time()
cache_call(t) ==
    /\ fn.pc[t] = "idle"
    /\ fn' = [fn EXCEPT !.pc[t] = "called", !.now[t] = clock]
    /\ UNCHANGED outcomes_cache
    /\ CacheUnchanged

\* with self._lock: entered without waiting for the lock
cache_acquire_unlocked(t) ==
    /\ fn.pc[t] = "called"
    /\ fn' = [fn EXCEPT !.pc[t] = "check", !.lock = t]
    /\ UNCHANGED outcomes_cache
    /\ CacheUnchanged

\* with self._lock:
cache_acquire(t) ==
    /\ fn.pc[t] = "called"
    /\ fn.lock = 0
    /\ fn' = [fn EXCEPT !.pc[t] = "check", !.lock = t]
    /\ UNCHANGED outcomes_cache
    /\ CacheUnchanged

\* if self._data is None or (now - self._timestamp) > self.ttl: the loader
\* is entered, or the block is left
cache_check(t) ==
    /\ fn.pc[t] = "check"
    /\ IF ~outcomes_cache.loaded
          \/ (fn.now[t] - outcomes_cache.timestamp) > CACHE_TTL_SECONDS
       THEN fn' = [fn EXCEPT !.pc[t] = "loading", !.hit[t] = FALSE]
       ELSE fn' = [fn EXCEPT !.pc[t] = "unlock", !.hit[t] = TRUE]
    /\ UNCHANGED outcomes_cache
    /\ CacheUnchanged

\* self._data = loader(): the sheet as it is when the loader reads it
cache_load(t) ==
    /\ fn.pc[t] = "loading"
    /\ outcomes_cache' = [outcomes_cache EXCEPT !.loaded = TRUE,
                                                 !.data = outcomes_sheet]
    /\ fn' = [fn EXCEPT !.pc[t] = "stamp", !.loaded_at = clock]
    /\ CacheUnchanged

\* self._timestamp = now
cache_stamp(t) ==
    /\ fn.pc[t] = "stamp"
    /\ outcomes_cache' = [outcomes_cache EXCEPT !.timestamp = fn.now[t]]
    /\ fn' = [fn EXCEPT !.pc[t] = "unlock"]
    /\ CacheUnchanged

\* the with block is left
cache_release(t) ==
    /\ fn.pc[t] = "unlock"
    /\ fn' = [fn EXCEPT !.pc[t] = "return",
                        !.lock = IF fn.lock = t THEN 0 ELSE fn.lock]
    /\ UNCHANGED outcomes_cache
    /\ CacheUnchanged

\* return self._data, read after the lock is released
cache_return(t) ==
    /\ fn.pc[t] = "return"
    /\ fn' = [fn EXCEPT !.pc[t] = "idle",
                        !.ret[t] = [valid |-> TRUE, data |-> outcomes_cache.data,
                                    loaded_at |-> fn.loaded_at, now |-> fn.now[t],
                                    hit |-> fn.hit[t]]]
    /\ UNCHANGED outcomes_cache
    /\ CacheUnchanged

NextCache ==
    \/ TickCache
    \/ outcome_feedback
    \/ \E t \in Threads :
         \/ cache_call(t)
         \/ cache_acquire(t)
         \/ cache_check(t)
         \/ cache_load(t)
         \/ cache_stamp(t)
         \/ cache_release(t)
         \/ cache_return(t)

SpecCache == InitCache /\ [][NextCache]_vars

(***************************************************************************)
(* Properties of the scoring chain (SpecScore)                             *)
(***************************************************************************)
\* C1: every AnalyticsRecord the chain produces has csi, dropout_probability,
\* placement_probability and employability_score in [0,100], critical_in_days
\* in [0,120] and days_to_save in [0,90], and risk_timeline never divides by
\* zero, a negative cert_score included.
C1_ScoresInRange ==
    fn.phase = "record" =>
        /\ fn.row.err # "ZeroDivisionError"
        /\ fn.row.err = "" =>
             /\ fn.row.record.csi \in 0..10000
             /\ fn.row.record.dropout_probability \in 0..10000
             /\ fn.row.record.placement_probability \in 0..20000
             /\ fn.row.record.employability_score \in 0..10000
             /\ fn.row.record.critical_in_days \in 0..1200
             /\ fn.row.record.days_to_save \in 0..900

\* a record produced from a cert_score so negative that recovery_rate is
\* negative, for a student below csi 80
C1_NegativeRecovery ==
    /\ fn.phase = "record"
    /\ fn.row.err = ""
    /\ fn.out.cert_score < 0
    /\ 1000 + 3 * fn.out.cert_score < 0
    /\ fn.row.record.csi < 8000
    /\ fn.row.record.days_to_save = 0

\* the number a numeric attendance cell holds, in tenths
IsNumeric(cell) == ToFloat(cell).ok

\* C3: of two rows that differ only in attendance, scored against the same
\* outcome feed, the one with the higher attendance has a csi at least as
\* high.
C3_CsiMonotoneInAttendance ==
    (/\ fn.phase = "csi"
     /\ IsNumeric(fn.student.attendance)
     /\ IsNumeric(fn.other.attendance)
     /\ ToFloat(fn.other.attendance).tenths >= ToFloat(fn.student.attendance).tenths)
    => fn.out_other.csi >= fn.out.csi

\* a higher attendance read from decimal text, and a strictly higher csi
C3_HigherAttendanceHigherCsi ==
    /\ fn.phase = "csi"
    /\ fn.other.attendance.t = "str"
    /\ IsNumeric(fn.other.attendance)
    /\ fn.student.attendance = PyInt(60)
    /\ ToFloat(fn.other.attendance).tenths > 600
    /\ fn.out_other.csi > fn.out.csi

FakeSourced(student) ==
    Normalize(Get(student, "cert_source", PyStr(T_unknown)))
        \in {T_randomsite, T_cheapcert, T_telegram, T_freepdf}

ResolvedWeight(student, data) ==
    certificate_weight(Get(student, "cert_type", PyStr(T_student_coordinator)), data)

\* C4 as claimed: cert_score is negative exactly when the normalized
\* cert_source is a fake source, a learned weight of 0 included, and csi >= 0.
C4_NegativeIffFake ==
    fn.phase = "csi" =>
        /\ (fn.out.cert_score < 0) <=> FakeSourced(fn.student)
        /\ fn.out.csi >= 0

\* C4 as amended: cert_score is negative exactly when the normalized
\* cert_source is a fake source and the weight resolved for the cert_type is
\* not 0; with a fake source and a weight of 0 it is 0; csi >= 0 throughout.
C4_NegativeIffFakeAndWeighted ==
    fn.phase = "csi" =>
        /\ (fn.out.cert_score < 0) <=>
               (FakeSourced(fn.student) /\ ResolvedWeight(fn.student, fn.data) # 0)
        /\ (FakeSourced(fn.student) /\ ResolvedWeight(fn.student, fn.data) = 0)
               => fn.out.cert_score = 0
        /\ fn.out.csi >= 0

\* a fake source on a cert_type learned at weight 0: cert_score is not negative
C4_FakeAtWeightZero ==
    /\ fn.phase = "csi"
    /\ FakeSourced(fn.student)
    /\ ResolvedWeight(fn.student, fn.data) = 0
    /\ fn.out.cert_score = 0

(***************************************************************************)
(* Properties of the weight learner (SpecLearn)                            *)
(***************************************************************************)
PlacedText(r) == Normalize(Get(r, "placed", PyStr(T_no)))

RowsOf(data, cert) == {i \in 1..Len(data) : OutcomeCert(data[i]) = cert}

YesRows(data, cert) == {i \in RowsOf(data, cert) : PlacedText(data[i]) = T_yes}

NoRows(data, cert) == {i \in RowsOf(data, cert) : PlacedText(data[i]) = T_no}

\* C5 as claimed: the weight of a cert_type with outcome rows is
\* yes / (yes + no) rounded to 2 decimals, rows whose placed is neither "yes"
\* nor "no" leaving it unchanged.
C5_WeightIsYesOverYesPlusNo ==
    fn.phase = "learned" =>
        \A cert \in DOMAIN fn.weights :
            LET yes == Cardinality(YesRows(fn.data, cert))
                no  == Cardinality(NoRows(fn.data, cert))
            IN  yes + no > 0 => fn.weights[cert] = RoundDiv(100 * yes, yes + no)

\* C5 as amended: the table has exactly the normalized cert_types with outcome
\* rows, and the weight of each is yes / (all rows of the type) rounded to 2
\* decimals: a row whose placed is not "yes" counts as not placed, whether it
\* says "no" or anything else; 3 yes and 1 no rows give 0.75.
C5_WeightIsYesOverAllRows ==
    fn.phase = "learned" =>
        /\ DOMAIN fn.weights = {OutcomeCert(fn.data[i]) : i \in 1..Len(fn.data)}
        /\ \A cert \in DOMAIN fn.weights :
               LET yes == Cardinality(YesRows(fn.data, cert))
                   all == Cardinality(RowsOf(fn.data, cert))
               IN  /\ fn.weights[cert] = RoundDiv(100 * yes, all)
                   /\ (yes = 3 /\ all = 4) => fn.weights[cert] = 75

\* 3 yes rows and 1 no row of one cert_type, learned at 0.75
C5_ThreeYesOneNo ==
    /\ fn.phase = "learned"
    /\ Cardinality(YesRows(fn.data, T_professional)) = 3
    /\ Cardinality(NoRows(fn.data, T_professional)) = 1
    /\ Len(fn.data) = 4
    /\ fn.weights[T_professional] = 75

\* C6 as claimed: a cert_type with no row in the outcome feed resolves to 0.2,
\* whatever the cert_type.
C6_UnseenResolvesToFifth ==
    (fn.phase = "resolved" /\ RowsOf(fn.data, Normalize(fn.cert_type)) = {})
    => fn.weight = 20

\* C6 as amended: a cert_type with no row in the outcome feed resolves to its
\* static base weight (professional 1.0, short_program 0.7, workshop 0.4,
\* conference 0.3, student_coordinator 0.2), and to 0.2 when the base table
\* does not name it.
C6_UnseenResolvesToBase ==
    (fn.phase = "resolved" /\ RowsOf(fn.data, Normalize(fn.cert_type)) = {})
    => fn.weight =
         LET key == Normalize(fn.cert_type)
         IN  CASE key = T_professional        -> 100
               [] key = T_short_program       -> 70
               [] key = T_workshop            -> 40
               [] key = T_conference          -> 30
               [] key = T_student_coordinator -> 20
               [] OTHER                       -> 20

\* "professional" resolved against a feed with rows of other types only
C6_UnseenProfessional ==
    /\ fn.phase = "resolved"
    /\ Normalize(fn.cert_type) = T_professional
    /\ fn.data # <<>>
    /\ RowsOf(fn.data, T_professional) = {}
    /\ fn.weight = 100

(***************************************************************************)
(* Properties of the endpoints (Spec)                                      *)
(***************************************************************************)
\* C2: a student_intelligence run that read the same student feed and, for
\* every student, the same outcome feed as the run before it returns the
\* same list of records, in the same order with the same field values.
C2_RepeatRunSameRecords ==
    [][(/\ req.op = "student_intelligence"
        /\ response'.op = "student_intelligence"
        /\ response'.status = "200"
        /\ last_run.valid
        /\ last_run.students = response'.students
        /\ last_run.reads = response'.reads)
       => response'.body = last_run.body]_vars

\* a second run over two students that read what the first run had read
C2_SecondRunSameFeeds ==
    /\ response.op = "student_intelligence"
    /\ response.status = "200"
    /\ last_run.repeated
    /\ Len(last_run.body) = 2

\* C7: over an empty student feed kpi_summary returns health_score 0 with
\* total, stable, at_risk and critical all 0, batch_heatmap returns
\* risk_percentage 0, and neither raises.
C7_EmptyFeedAggregates ==
    /\ (response.op = "kpi_summary" /\ response.students = <<>>) =>
          /\ response.status = "200"
          /\ response.body = [total_students |-> 0, stable |-> 0, at_risk |-> 0,
                              critical |-> 0, health_score |-> 0]
    /\ (response.op = "batch_heatmap" /\ response.students = <<>>) =>
          /\ response.status = "200"
          /\ response.body.total_students = 0
          /\ response.body.risk_percentage = 0

\* kpi_summary has answered over an empty student feed
C7_KpiOverEmptyFeed ==
    /\ response.op = "kpi_summary"
    /\ response.students = <<>>
    /\ response.status = "200"

\* C8: assistant, asked about "health" over an empty student feed, returns a
\* reply and does not raise.
C8_HealthOverEmptyFeedReplies ==
    (/\ response.op = "assistant"
     /\ response.intent = "health"
     /\ response.students = <<>>)
    => response.status = "200"

RECURSIVE HighAndMedium(_, _, _)
HighAndMedium(students, reads, i) ==
    IF i > Len(students) THEN <<>>
    ELSE LET entry(u) ==
                 IF u \in {"HIGH", "MEDIUM"}
                 THEN <<[name |-> Get(students[i], "name", PyStr(<<>>)), urgency |-> u]>>
                 ELSE <<>>
         IN  entry(UrgencyOf(students[i], reads[i]).urgency)
             \o HighAndMedium(students, reads, i + 1)

\* C9: mentor_queue returns one entry for each student whose urgency is HIGH
\* or MEDIUM, none for a student whose urgency is LOW, in feed order.
C9_QueueIsHighAndMediumInOrder ==
    response.op = "mentor_queue" =>
        /\ response.status = "200"
        /\ [k \in 1..Len(response.body) |->
               [name |-> response.body[k].name, urgency |-> response.body[k].urgency]]
           = HighAndMedium(response.students, response.reads, 1)

\* a queue over a HIGH student followed by a LOW student: one entry
C9_LowStudentLeftOut ==
    /\ response.op = "mentor_queue"
    /\ response.status = "200"
    /\ Len(response.students) = 2
    /\ UrgencyOf(response.students[1], response.reads[1]).urgency = "HIGH"
    /\ UrgencyOf(response.students[2], response.reads[2]).urgency = "LOW"
    /\ Len(response.body) = 1
    /\ response.body[1].action = "Immediate 1-on-1 mentoring"

\* C10: student_intelligence returns one record for every row of the feed,
\* whatever the rows hold, and never fails the request.
C10_EveryRowYieldsRecord ==
    response.op = "student_intelligence" =>
        /\ response.status = "200"
        /\ Len(response.body) = Len(response.students)

\* the cells final_csi reads are the same in rows a and b
SameScoringCells(a, b) ==
    /\ a.attendance = b.attendance
    /\ a.internal_avg = b.internal_avg
    /\ a.cert_type = b.cert_type
    /\ a.cert_source = b.cert_source

\* C11: within one run of student_intelligence, kpi_summary, batch_heatmap or
\* mentor_queue, two rows with the same attendance, internal_avg, cert_type
\* and cert_source get the same csi and cert_score, whatever the clock and
\* outcome_feedback do while the run is in progress.
C11_OneOutcomeSnapshotPerRun ==
    (/\ response.op \in {"student_intelligence", "kpi_summary",
                         "batch_heatmap", "mentor_queue"}
     /\ response.status = "200")
    => \A i, j \in 1..Len(response.students) :
           SameScoringCells(response.students[i], response.students[j])
           => /\ final_csi(response.students[i], response.reads[i])
                 = final_csi(response.students[j], response.reads[j])
              /\ response.op = "student_intelligence"
                 => response.body[i].csi = response.body[j].csi

(***************************************************************************)
(* Properties of the engines (SpecEngines)                                 *)
(***************************************************************************)
\* C12: with att, avg and csi fixed, a higher cert_score never yields a larger
\* days_to_save than a lower one, over cert_score in [-4, 10].
C12_DaysToSaveFallsWithCertScore ==
    (fn.phase = "timeline" /\ fn.other >= fn.cert_score)
    => fn.out_other.days_to_save <= fn.out.days_to_save

\* C13: intervention_priority returns max(80 - csi, 0), doubled when
\* cert_score < 7 and then multiplied by 1.5 when attendance < 70, rounded to
\* 2 decimals, and never a negative value.
C13_PriorityIsFlooredThenScaled ==
    fn.phase = "priority" =>
        LET floored == IF 8000 - fn.csi > 0 THEN 8000 - fn.csi ELSE 0
            doubled == IF fn.cert_score < 700 THEN 2 * floored ELSE floored
            twice   == IF fn.att < 70 THEN 3 * doubled ELSE 2 * doubled
        IN  /\ fn.out = RoundDiv(twice, 2)
            /\ fn.out >= 0

\* a csi above 80 with both multipliers applied: the priority is 0
C13_AboveEightyScaled ==
    /\ fn.phase = "priority"
    /\ fn.csi > 8000
    /\ fn.cert_score < 700
    /\ fn.att < 70
    /\ fn.out = 0

(***************************************************************************)
(* Critical students and the mentor queue (SpecScore)                      *)
(***************************************************************************)
\* C14: a row whose status is Critical (csi < 60) has rescue_urgency HIGH and
\* gets a mentor_queue entry with the action "Immediate 1-on-1 mentoring",
\* whatever its attendance, internal_avg, certificate and the outcome feed.
C14_CriticalIsHighAndQueued ==
    /\ (fn.phase = "record" /\ fn.row.err = "" /\ fn.row.record.status = "Critical")
       => fn.row.record.rescue_urgency = "HIGH"
    /\ (fn.phase = "queue" /\ fn.out.csi < 6000)
       => /\ fn.err = ""
          /\ Len(fn.queue) = 1
          /\ fn.queue[1].name = fn.student.name
          /\ fn.queue[1].urgency = "HIGH"
          /\ fn.queue[1].action = "Immediate 1-on-1 mentoring"

\* a Critical row just below csi 60 with a real certificate, queued HIGH
C14_CriticalNearSixtyQueued ==
    /\ fn.phase = "queue"
    /\ fn.out.csi < 6000
    /\ fn.out.csi > 5000
    /\ fn.out.cert_score > 0
    /\ Len(fn.queue) = 1
    /\ fn.queue[1].urgency = "HIGH"

(***************************************************************************)
(* Properties of TTLCache.get under concurrent callers (SpecCache)         *)
(***************************************************************************)
\* no two threads are inside the loader; every value returned was loaded no
\* more than ttl seconds before its caller read the clock
CacheStateSafe ==
    /\ Cardinality({t \in Threads : fn.pc[t] = "loading"}) <= 1
    /\ \A t \in Threads :
           fn.ret[t].valid => fn.ret[t].loaded_at >= fn.ret[t].now - CACHE_TTL_SECONDS

\* a caller that finds a value stamped within ttl seconds of its own now does
\* not enter the loader; the stored timestamp never decreases
CacheStepSafe ==
    /\ \A t \in Threads :
           (/\ fn.pc[t] = "check"
            /\ fn'.pc[t] # "check"
            /\ outcomes_cache.loaded
            /\ fn.now[t] - outcomes_cache.timestamp <= CACHE_TTL_SECONDS)
           => fn'.pc[t] # "loading"
    /\ outcomes_cache'.timestamp >= outcomes_cache.timestamp

\* C15: under every interleaving of concurrent callers of TTLCache.get,
\* loader invocations never overlap, a caller that finds a non-None value
\* stamped within ttl seconds of its own timestamp does not invoke the
\* loader, the stored timestamp never decreases, and every value returned was
\* loaded no more than ttl seconds before the calling thread read the clock.
C15_CacheGetUnderConcurrentCallers ==
    /\ [](fn.phase = "cache" => CacheStateSafe)
    /\ [][fn.phase = "cache" => CacheStepSafe]_vars

\* a caller has returned a value it found in the cache, loaded exactly ttl
\* seconds before it read the clock, while the other thread, which read the
\* clock after the entry expired, is inside the loader
C15_HitAtTtlWhileOtherLoads ==
    /\ fn.phase = "cache"
    /\ \E t, u \in Threads :
           /\ t # u
           /\ fn.ret[t].valid
           /\ fn.ret[t].hit
           /\ fn.ret[t].now - fn.ret[t].loaded_at = CACHE_TTL_SECONDS
           /\ fn.pc[u] = "loading"
           /\ outcomes_cache.loaded

====
